---- MODULE Spec2Model ----
(***************************************************************************)
(* Model of the Writing component (src/components/writing.tsx): a timed    *)
(* writing session with an inactivity check that deletes the text and a    *)
(* countdown that ends the session.                                        *)
(*                                                                         *)
(* The component is a React function component.  Its state lives in        *)
(* useState hooks; its two timers are created and cleared by useEffect     *)
(* hooks.  The model keeps React's scheduling where the code depends on    *)
(* it:                                                                     *)
(*   - a setState made inside a setInterval callback is queued (textQ,     *)
(*     timeQ) and applied by a later render (Render);                      *)
(*   - the updater passed to setTimeRemaining runs during that render;     *)
(*   - after a render that was not caused by a user event the effects      *)
(*     (cleanup and setup of the intervals) run in a later task            *)
(*     (PassiveEffects);                                                   *)
(*   - a user event (click, change) is flushed synchronously: handler,     *)
(*     render and effects are one step;                                    *)
(*   - toast calls and clearInterval calls take effect when called.        *)
(* Time is Date.now() in milliseconds; the clock advances by the interval  *)
(* period, and every callback that is due fires before it advances again.  *)
(***************************************************************************)
EXTENDS Integers, Sequences, FiniteSets, TLC

(* ---------------- program constants ---------------- *)
DEFAULT_TIMEOUT == 7
MIN_SESSION_TIME == 5
MAX_SESSION_TIME == 180
DEFAULT_SESSION_TIME == 15
SESSION_STEP == 5
MIN_TIMEOUT == 3
MAX_TIMEOUT == 15
INTERVAL_MS == 1000
MS_PER_SECOND == 1000
SECONDS_PER_MINUTE == 60

(* ---------------- bounds of the model ---------------- *)
\* The clock stops at MaxSeconds seconds.
MaxSeconds == 302
\* While a session is active the run is followed only as long as the user
\* has typed within the last MaxIdleGap seconds.
MaxIdleGap == 9
\* Sessions are started, and time passes outside a session, only during
\* the first StartHorizon seconds.
StartHorizon == 1
\* In the runs that follow whole sessions the user acts only during the
\* first UserHorizon seconds of a session, and then leaves it running.
UserHorizon == 5
\* The slider positions the user tries (a slider offers only those within
\* its range), and the texts the user types.
SessionChoices == {0, 5, 185}
TimeoutChoices == {2, 5, 16}
Texts == {"", "a"}

NoTime == 0 - 1

VARIABLES
  text,            \* useState("")
  isActive,        \* useState(false)
  sessionTime,     \* useState(15), minutes
  timeRemaining,   \* useState(0), seconds
  lastKeystroke,   \* useState(0), Date.now() of the last keystroke
  showSettings,    \* useState(false)
  timeoutSeconds,  \* useState(DEFAULT_TIMEOUT)
  sessionTimerRef, \* useRef: the countdown interval
  interval,        \* the inactivity interval of the timeout effect, with
                   \* the lastKeystroke and timeoutSeconds its closure holds
  deps1,           \* dependencies of the last run of the timeout effect
  deps2,           \* dependencies of the last run of the session effect
  textQ,           \* setText calls queued by timer callbacks
  timeQ,           \* setTimeRemaining calls queued by timers and effects
  effectsPending,  \* a render committed, its effects have not run yet
  now,             \* Date.now()
  \* observations of the run (not program state)
  startedAt,       \* time of the last startSession
  edited,          \* a keystroke happened in this session
  ticks,           \* countdown updaters applied in this session
  endedCount,      \* "session ended" toasts in this session
  completed,       \* argument of the last endSession call
  erasedAt,        \* time of the last "text deleted" toast since the last
                   \* keystroke or start
  erasedPrev       \* time of the one before it

vars == <<text, isActive, sessionTime, timeRemaining, lastKeystroke,
          showSettings, timeoutSeconds, sessionTimerRef, interval, deps1,
          deps2, textQ, timeQ, effectsPending, now, startedAt, edited,
          ticks, endedCount, completed, erasedAt, erasedPrev>>

(* ---------------- helpers ---------------- *)
NoTimer == [armed |-> FALSE, due |-> 0, lastKeystroke |-> 0, timeoutSeconds |-> 0]

\* setInterval(cb, 1000) called at time n
SetInterval(n, lk, t) ==
  [armed |-> TRUE, due |-> n + INTERVAL_MS, lastKeystroke |-> lk, timeoutSeconds |-> t]

\* A slider that lets the thumb go one step outside min..max
SliderValuesUnclamped(lo, hi, step) == {v \in (lo - step)..(hi + step) : (v - lo) % step = 0}

\* Slider min/max/step
SliderValues(lo, hi, step) == {v \in lo..hi : (v - lo) % step = 0}

SessionSlider == SliderValues(MIN_SESSION_TIME, MAX_SESSION_TIME, SESSION_STEP) \cap SessionChoices
TimeoutSlider == SliderValues(MIN_TIMEOUT, MAX_TIMEOUT, 1) \cap TimeoutChoices

\* Expired with the comparison made non-strict
ExpiredAtBoundary(n, lk, t) == lk # 0 /\ (n - lk) >= t * MS_PER_SECOND

\* The condition of checkTimeout: lastKeystroke && elapsed > timeoutSeconds,
\* with elapsed = (n - lk) / 1000 a fraction; the comparison is made in
\* milliseconds here.
Expired(n, lk, t) == lk # 0 /\ (n - lk) > t * MS_PER_SECOND

\* Updater counting up
UpdaterUp(prev) ==
  IF prev <= 1 THEN [value |-> 0, end |-> TRUE]
               ELSE [value |-> prev + 1, end |-> FALSE]

\* Updater ending one tick late
UpdaterLate(prev) ==
  IF prev <= 0 THEN [value |-> 0, end |-> TRUE]
               ELSE [value |-> prev - 1, end |-> FALSE]

\* Updater taking two seconds per tick
UpdaterTwo(prev) ==
  IF prev <= 1 THEN [value |-> 0, end |-> TRUE]
               ELSE [value |-> prev - 2, end |-> FALSE]

\* The updater of the countdown: prev => prev <= 1 ? (endSession(true), 0) : prev - 1
Updater(prev) ==
  IF prev <= 1 THEN [value |-> 0, end |-> TRUE]
               ELSE [value |-> prev - 1, end |-> FALSE]

\* sessionTime * 60
SessionSeconds(minutes) == minutes * SECONDS_PER_MINUTE

\* The queue of setTimeRemaining calls applied in order to prev.
RECURSIVE ApplyTimeQ(_, _)
ApplyTimeQ(prev, q) ==
  IF q = <<>> THEN [value |-> prev, ends |-> 0, decs |-> 0]
  ELSE LET u == Head(q) IN
       IF u.op = "set" THEN ApplyTimeQ(u.v, Tail(q))
       ELSE LET r == Updater(prev)
                rest == ApplyTimeQ(r.value, Tail(q))
            IN [rest EXCEPT !.ends = @ + (IF r.end THEN 1 ELSE 0), !.decs = @ + 1]

\* The state as one record, so that a handler, the render and the effects
\* can be composed inside one step.
St ==
  [text |-> text, isActive |-> isActive, sessionTime |-> sessionTime,
   timeRemaining |-> timeRemaining, lastKeystroke |-> lastKeystroke,
   showSettings |-> showSettings, timeoutSeconds |-> timeoutSeconds,
   sessionTimerRef |-> sessionTimerRef, interval |-> interval,
   deps1 |-> deps1, deps2 |-> deps2, textQ |-> textQ, timeQ |-> timeQ,
   effectsPending |-> effectsPending, startedAt |-> startedAt,
   edited |-> edited, ticks |-> ticks, endedCount |-> endedCount,
   completed |-> completed, erasedAt |-> erasedAt, erasedPrev |-> erasedPrev]

Install(s) ==
  /\ text' = s.text
  /\ isActive' = s.isActive
  /\ sessionTime' = s.sessionTime
  /\ timeRemaining' = s.timeRemaining
  /\ lastKeystroke' = s.lastKeystroke
  /\ showSettings' = s.showSettings
  /\ timeoutSeconds' = s.timeoutSeconds
  /\ sessionTimerRef' = s.sessionTimerRef
  /\ interval' = s.interval
  /\ deps1' = s.deps1
  /\ deps2' = s.deps2
  /\ textQ' = s.textQ
  /\ timeQ' = s.timeQ
  /\ effectsPending' = s.effectsPending
  /\ startedAt' = s.startedAt
  /\ edited' = s.edited
  /\ ticks' = s.ticks
  /\ endedCount' = s.endedCount
  /\ completed' = s.completed
  /\ erasedAt' = s.erasedAt
  /\ erasedPrev' = s.erasedPrev

(* ---------------- the component's functions ---------------- *)

\* endSession that also empties the text
EndSessionClearsText(s, c) ==
  [s EXCEPT !.isActive = FALSE,
            !.sessionTimerRef = [@ EXCEPT !.armed = FALSE],
            !.textQ = Append(@, ""),
            !.completed = c,
            !.endedCount = @ + 1]

\* endSession(completed): setIsActive(false), clearInterval(sessionTimerRef.current),
\* and one toast, whatever the state.
EndSession(s, c) ==
  [s EXCEPT !.isActive = FALSE,
            !.sessionTimerRef = [@ EXCEPT !.armed = FALSE],
            !.completed = c,
            !.endedCount = @ + 1]

\* startSession without setText("")
StartSessionKeepsText(s) ==
  [s EXCEPT !.isActive = TRUE,
            !.lastKeystroke = now,
            !.startedAt = now,
            !.edited = FALSE,
            !.ticks = 0,
            !.endedCount = 0,
            !.completed = FALSE,
            !.erasedAt = NoTime,
            !.erasedPrev = NoTime]

\* startSession() without setLastKeystroke(Date.now())
StartSessionNoSeed(s) ==
  [s EXCEPT !.isActive = TRUE,
            !.textQ = Append(@, ""),
            !.startedAt = now,
            !.edited = FALSE,
            !.ticks = 0,
            !.endedCount = 0,
            !.completed = FALSE,
            !.erasedAt = NoTime,
            !.erasedPrev = NoTime]

\* startSession(): setIsActive(true), setLastKeystroke(Date.now()), setText("")
StartSession(s) ==
  [s EXCEPT !.isActive = TRUE,
            !.lastKeystroke = now,
            !.textQ = Append(@, ""),
            !.startedAt = now,
            !.edited = FALSE,
            !.ticks = 0,
            !.endedCount = 0,
            !.completed = FALSE,
            !.erasedAt = NoTime,
            !.erasedPrev = NoTime]

\* handleTextChange(e): setText(e.target.value), setLastKeystroke(Date.now())
HandleTextChange(s, v) ==
  [s EXCEPT !.textQ = Append(@, v),
            !.lastKeystroke = now,
            !.edited = TRUE,
            !.erasedAt = NoTime,
            !.erasedPrev = NoTime]

Deps1(s) == <<s.isActive, s.lastKeystroke, s.timeoutSeconds>>
\* The session effect depending on lastKeystroke too
Deps2WithKeystroke(s) == <<s.isActive, s.sessionTime, s.lastKeystroke>>

Deps2(s) == <<s.isActive, s.sessionTime>>

\* A render: the queued state updates are applied; the countdown's updater
\* runs here and calls endSession(true) when it reaches zero.
Commit(s) ==
  LET t  == IF s.textQ = <<>> THEN s.text ELSE s.textQ[Len(s.textQ)]
      r  == ApplyTimeQ(s.timeRemaining, s.timeQ)
      s1 == [s EXCEPT !.text = t, !.textQ = <<>>,
                      !.timeRemaining = r.value, !.timeQ = <<>>,
                      !.ticks = @ + r.decs]
      s2 == IF r.ends > 0 THEN EndSession(s1, TRUE) ELSE s1
  IN [s2 EXCEPT !.effectsPending =
                  @ \/ Deps1(s2) # s2.deps1 \/ Deps2(s2) # s2.deps2]

\* The timeout effect, dependencies [isActive, lastKeystroke, timeoutSeconds]
TimeoutEffect(s) ==
  IF Deps1(s) = s.deps1 THEN s
  ELSE [s EXCEPT !.deps1 = Deps1(s),
                 !.interval = IF s.isActive
                              THEN SetInterval(now, s.lastKeystroke, s.timeoutSeconds)
                              ELSE NoTimer]

\* The session timer effect, dependencies [isActive, sessionTime]
SessionEffect(s) ==
  IF Deps2(s) = s.deps2 THEN s
  ELSE IF s.isActive
       THEN [s EXCEPT !.deps2 = Deps2(s),
                      !.timeQ = Append(@, [op |-> "set", v |-> SessionSeconds(s.sessionTime)]),
                      !.sessionTimerRef = SetInterval(now, 0, 0)]
       ELSE [s EXCEPT !.deps2 = Deps2(s),
                      !.sessionTimerRef = [@ EXCEPT !.armed = FALSE]]

\* The effects of the last committed render.
RunEffects(s) ==
  IF s.effectsPending
  THEN [SessionEffect(TimeoutEffect(s)) EXCEPT !.effectsPending = FALSE]
  ELSE s

\* A user event: effects still pending run first, then the handler's
\* updates are rendered and their effects run, all in one task.
FlushSync(s) == RunEffects(Commit(s))

(* ---------------- initial state ---------------- *)
Init ==
  /\ text = ""
  /\ isActive = FALSE
  /\ sessionTime = DEFAULT_SESSION_TIME
  /\ timeRemaining = 0
  /\ lastKeystroke = 0
  /\ showSettings = FALSE
  /\ timeoutSeconds = DEFAULT_TIMEOUT
  /\ sessionTimerRef = NoTimer
  /\ interval = NoTimer
  /\ deps1 = <<FALSE, 0, DEFAULT_TIMEOUT>>
  /\ deps2 = <<FALSE, DEFAULT_SESSION_TIME>>
  /\ textQ = <<>>
  /\ timeQ = <<>>
  /\ effectsPending = FALSE
  /\ now = 0
  /\ startedAt = NoTime
  /\ edited = FALSE
  /\ ticks = 0
  /\ endedCount = 0
  /\ completed = FALSE
  /\ erasedAt = NoTime
  /\ erasedPrev = NoTime

(* ---------------- actions ---------------- *)

\* The settings dialog is modal: while it is open the page behind it
\* takes no clicks.
DialogBlocksPage == showSettings

\* The Start button rendered whatever isActive is
startSessionAnyPhase ==
  /\ ~showSettings
  /\ now <= StartHorizon * MS_PER_SECOND
  /\ Install(FlushSync(StartSession(RunEffects(St))))
  /\ UNCHANGED now

\* Click on "Start N-Minute Session" (rendered while not active)
startSession ==
  /\ ~isActive
  /\ ~DialogBlocksPage
  /\ now <= StartHorizon * MS_PER_SECOND
  /\ Install(FlushSync(StartSession(RunEffects(St))))
  /\ UNCHANGED now

\* Click on "End Session" (rendered while active)
endSession ==
  /\ isActive
  /\ Install(FlushSync(EndSession(RunEffects(St), FALSE)))
  /\ UNCHANGED now

\* onChange of the textarea (rendered while active)
handleTextChange ==
  /\ isActive
  /\ \E v \in Texts :
       /\ v # text
       /\ Install(FlushSync(HandleTextChange(RunEffects(St), v)))
  /\ UNCHANGED now

\* The callback of the inactivity interval
checkTimeout ==
  /\ interval.armed
  /\ interval.due <= now
  /\ interval' = [interval EXCEPT !.due = @ + INTERVAL_MS]
  /\ IF Expired(now, interval.lastKeystroke, interval.timeoutSeconds)
     THEN /\ textQ' = Append(textQ, "")
          /\ erasedAt' = now
          /\ erasedPrev' = erasedAt
     ELSE UNCHANGED <<textQ, erasedAt, erasedPrev>>
  /\ UNCHANGED <<text, isActive, sessionTime, timeRemaining, lastKeystroke,
                 showSettings, timeoutSeconds, sessionTimerRef, deps1, deps2,
                 timeQ, effectsPending, now, startedAt, edited, ticks,
                 endedCount, completed>>

\* The callback of the countdown interval
sessionTick ==
  /\ sessionTimerRef.armed
  /\ sessionTimerRef.due <= now
  /\ sessionTimerRef' = [sessionTimerRef EXCEPT !.due = @ + INTERVAL_MS]
  /\ timeQ' = Append(timeQ, [op |-> "dec", v |-> 0])
  /\ UNCHANGED <<text, isActive, sessionTime, timeRemaining, lastKeystroke,
                 showSettings, timeoutSeconds, interval, deps1, deps2, textQ,
                 effectsPending, now, startedAt, edited, ticks, endedCount,
                 completed, erasedAt, erasedPrev>>

\* React renders the queued updates
Render ==
  /\ textQ # <<>> \/ timeQ # <<>>
  /\ Install(Commit(RunEffects(St)))
  /\ UNCHANGED now

\* React runs the effects of the committed render
PassiveEffects ==
  /\ effectsPending
  /\ Install(RunEffects(St))
  /\ UNCHANGED now

\* The Settings button without disabled={isActive}
openSettingsAnyPhase ==
  /\ ~showSettings
  /\ Install(FlushSync([RunEffects(St) EXCEPT !.showSettings = TRUE]))
  /\ UNCHANGED now

\* Click on "Settings" (disabled while active)
openSettings ==
  /\ ~isActive
  /\ ~showSettings
  /\ Install(FlushSync([RunEffects(St) EXCEPT !.showSettings = TRUE]))
  /\ UNCHANGED now

\* "Save Changes", or the dialog's close
closeSettings ==
  /\ showSettings
  /\ Install(FlushSync([RunEffects(St) EXCEPT !.showSettings = FALSE]))
  /\ UNCHANGED now

\* The session length slider
setSessionTime ==
  /\ showSettings
  /\ \E v \in SessionSlider :
       /\ v # sessionTime
       /\ Install(FlushSync([RunEffects(St) EXCEPT !.sessionTime = v]))
  /\ UNCHANGED now

\* The timeout slider
setTimeoutSeconds ==
  /\ showSettings
  /\ \E v \in TimeoutSlider :
       /\ v # timeoutSeconds
       /\ Install(FlushSync([RunEffects(St) EXCEPT !.timeoutSeconds = v]))
  /\ UNCHANGED now

\* Nothing is left to do at this instant
Quiescent ==
  /\ textQ = <<>>
  /\ timeQ = <<>>
  /\ ~effectsPending
  /\ interval.armed => interval.due > now
  /\ sessionTimerRef.armed => sessionTimerRef.due > now

\* The clock moves on by one interval period
Advance ==
  /\ Quiescent
  /\ now + INTERVAL_MS <= MaxSeconds * MS_PER_SECOND
  /\ IF isActive
     THEN now - lastKeystroke < MaxIdleGap * MS_PER_SECOND
     ELSE now < StartHorizon * MS_PER_SECOND
  /\ now' = now + INTERVAL_MS
  /\ UNCHANGED <<text, isActive, sessionTime, timeRemaining, lastKeystroke,
                 showSettings, timeoutSeconds, sessionTimerRef, interval,
                 deps1, deps2, textQ, timeQ, effectsPending, startedAt,
                 edited, ticks, endedCount, completed, erasedAt, erasedPrev>>

Next ==
  \/ startSession
  \/ endSession
  \/ handleTextChange
  \/ checkTimeout
  \/ sessionTick
  \/ Render
  \/ PassiveEffects
  \/ openSettings
  \/ closeSettings
  \/ setSessionTime
  \/ setTimeoutSeconds
  \/ Advance

Spec == Init /\ [][Next]_vars

(* ---------------- whole sessions ---------------- *)
\* A second specification follows sessions of the shortest length to their
\* end: the user has set both sliders to their minimum and closed the
\* dialog, the settings are not opened again, and the session is started
\* without waiting.
InitLive ==
  /\ text = ""
  /\ isActive = FALSE
  /\ sessionTime = MIN_SESSION_TIME
  /\ timeRemaining = 0
  /\ lastKeystroke = 0
  /\ showSettings = FALSE
  /\ timeoutSeconds = MIN_TIMEOUT
  /\ sessionTimerRef = NoTimer
  /\ interval = NoTimer
  /\ deps1 = <<FALSE, 0, MIN_TIMEOUT>>
  /\ deps2 = <<FALSE, MIN_SESSION_TIME>>
  /\ textQ = <<>>
  /\ timeQ = <<>>
  /\ effectsPending = FALSE
  /\ now = 0
  /\ startedAt = NoTime
  /\ edited = FALSE
  /\ ticks = 0
  /\ endedCount = 0
  /\ completed = FALSE
  /\ erasedAt = NoTime
  /\ erasedPrev = NoTime

\* During a session the clock moves on by one interval period, however
\* long the user has been idle
AdvanceLive ==
  /\ Quiescent
  /\ now + INTERVAL_MS <= MaxSeconds * MS_PER_SECOND
  /\ isActive
  /\ now' = now + INTERVAL_MS
  /\ UNCHANGED <<text, isActive, sessionTime, timeRemaining, lastKeystroke,
                 showSettings, timeoutSeconds, sessionTimerRef, interval,
                 deps1, deps2, textQ, timeQ, effectsPending, startedAt,
                 edited, ticks, endedCount, completed, erasedAt, erasedPrev>>

\* A keystroke in the textarea, early in the session
handleTextChangeEarly ==
  /\ now - startedAt < UserHorizon * MS_PER_SECOND
  /\ handleTextChange

\* Click on "End Session", early in the session
endSessionEarly ==
  /\ now - startedAt < UserHorizon * MS_PER_SECOND
  /\ endSession

NextLive ==
  \/ startSession
  \/ endSessionEarly
  \/ handleTextChangeEarly
  \/ checkTimeout
  \/ sessionTick
  \/ Render
  \/ PassiveEffects
  \/ AdvanceLive

\* A step of the browser's event loop: a due interval callback, a
\* scheduled render, pending effects, or the clock moving on
SystemStep ==
  \/ checkTimeout
  \/ sessionTick
  \/ Render
  \/ PassiveEffects
  \/ AdvanceLive

\* The event loop keeps running; the user is free to type, to end the
\* session, to start another or to do nothing.
LiveSpec ==
  /\ InitLive
  /\ [][NextLive]_vars
  /\ WF_vars(SystemStep)

(* ---------------- vocabulary of the claims ---------------- *)
\* The text once the queued setText calls are rendered
Buffer == IF textQ = <<>> THEN text ELSE textQ[Len(textQ)]

\* The remaining time once the queued setTimeRemaining calls are rendered
Remaining == ApplyTimeQ(timeRemaining, timeQ).value

\* The configured timeout in milliseconds
TimeoutMs == timeoutSeconds * MS_PER_SECOND

\* A step in which the inactivity check deletes the text
Erases == checkTimeout /\ Len(textQ') = Len(textQ) + 1

(* ---------------- C1 ---------------- *)
\* C1: while the session is active, a firing of the inactivity check deletes
\* the text exactly when the last keystroke time is set (non-zero) and the
\* time since the last keystroke is strictly more than the timeout; hence
\* every deletion since the last keystroke (or start) came more than the
\* timeout after it, and typing with gaps of at most the timeout never loses
\* the text.
ThmC1 ==
  /\ [][(checkTimeout /\ isActive) =>
          (Erases <=> (lastKeystroke # 0 /\ now - lastKeystroke > TimeoutMs))]_vars
  /\ [](erasedAt # NoTime => erasedAt - lastKeystroke > TimeoutMs)

\* The check has fired at exactly the timeout and kept the text, and has
\* fired one second later and deleted it.
WitC1 ==
  /\ isActive
  /\ edited
  /\ text # ""
  /\ textQ = <<"">>
  /\ erasedAt = now
  /\ erasedPrev = NoTime
  /\ now - lastKeystroke = TimeoutMs + MS_PER_SECOND

(* ---------------- C2 ---------------- *)
\* C2 (as claimed): with no keystroke after start, two deletions are always
\* more than a full timeout apart, because a deletion restarts the window.
CexC2 ==
  (isActive /\ ~edited /\ erasedAt # NoTime /\ erasedPrev # NoTime)
    => erasedAt - erasedPrev > TimeoutMs

(* ---------------- C3 ---------------- *)
\* C3 (as claimed): a session emits at most one "session ended"
\* notification, however the countdown and the End button interleave.
CexC3 == endedCount <= 1

(* ---------------- C4 ---------------- *)
\* C4: a step that takes the session out of Active, by the End button or by
\* the countdown reaching zero, leaves the text as it was (unless that step
\* is itself a keystroke, whose render also applies a queued last countdown
\* tick: then the text is what was typed).
ThmC4 == [][(isActive /\ ~isActive') => (Buffer' = Buffer \/ handleTextChange)]_vars

\* The countdown has ended a session whose text is kept.
WitC4 ==
  /\ ~isActive
  /\ completed
  /\ endedCount = 1
  /\ timeRemaining = 0
  /\ text # ""
  /\ textQ = <<>>

(* ---------------- C5 ---------------- *)
\* C5 (as claimed): once the session is not active no timer callback changes
\* it: the countdown callback does not fire and the inactivity check deletes
\* nothing.
CexC5 == [][~isActive => (~sessionTick /\ ~Erases)]_vars

(* ---------------- C6 ---------------- *)
\* C6: startSession makes the session active with an empty text, the last
\* keystroke time set to the current time and the remaining time set to the
\* configured duration; and the countdown only ever counts down from that
\* value: after k ticks of an active session the remaining time is the
\* duration minus k.
ThmC6 ==
  /\ [][startSession =>
          /\ isActive'
          /\ Buffer' = ""
          /\ lastKeystroke' = now
          /\ Remaining' = SessionSeconds(sessionTime')]_vars
  /\ []((isActive /\ timeQ = <<>>) =>
          timeRemaining = SessionSeconds(sessionTime) - ticks)

\* A session started from Ended: the previous session's remaining time is
\* still in the state and the duration is queued to replace it.
WitC6 ==
  /\ isActive
  /\ startedAt = now
  /\ timeRemaining # 0
  /\ timeRemaining # SessionSeconds(sessionTime)
  /\ timeQ = <<[op |-> "set", v |-> SessionSeconds(sessionTime)]>>
  /\ text = ""

(* ---------------- C7 ---------------- *)
\* C7: a countdown tick of an active session never raises the remaining
\* time, and the remaining time is never negative.
ThmC7 ==
  /\ [][(isActive /\ ticks' > ticks) =>
          (timeRemaining' <= timeRemaining /\ timeRemaining' >= 0)]_vars
  /\ [](timeRemaining >= 0)

\* The countdown has run down to its last second.
WitC7 == isActive /\ ticks > 1 /\ timeRemaining = 1 /\ timeQ = <<>>

(* ---------------- C8 ---------------- *)
\* C8: with a duration of N seconds the session is still active after each
\* of the first N-1 ticks; the notification "completed" is emitted by the
\* N-th tick, which leaves the remaining time at 0; and a session that ended
\* as completed has remaining time 0.
ThmC8 ==
  /\ []((isActive /\ timeQ = <<>>) =>
          (ticks < SessionSeconds(sessionTime) /\ timeRemaining > 0))
  /\ [][(completed' /\ endedCount' > endedCount) =>
          (ticks' = SessionSeconds(sessionTime) /\ timeRemaining' = 0 /\ ~isActive')]_vars
  /\ []((~isActive /\ completed) => timeRemaining = 0)

\* The N-th tick has ended the session as completed.
WitC8 ==
  /\ ~isActive
  /\ completed
  /\ ticks = SessionSeconds(sessionTime)
  /\ timeRemaining = 0
  /\ now - startedAt = SessionSeconds(sessionTime) * MS_PER_SECOND

(* ---------------- C9 ---------------- *)
\* The scenario of C9: 5 minutes, timeout 5 s, started at time 0
Scenario == isActive /\ startedAt = 0 /\ sessionTime = 5 /\ timeoutSeconds = 5 /\ Quiescent

CexC10 ==
  (isActive /\ ~edited /\ Quiescent /\ now - startedAt > TimeoutMs)
    => erasedAt # NoTime

(* ---------------- C11 ---------------- *)
\* The session is active and no queued countdown tick ends it
ActivePhase == isActive /\ ApplyTimeQ(timeRemaining, timeQ).ends = 0

\* C11 (as claimed): a keystroke that arrives when the session is not, or no
\* longer, active (the tick that ends it has already fired) changes neither
\* the text, nor the last keystroke time, nor the remaining time.
CexC11 ==
  [][(handleTextChange /\ ~ActivePhase) =>
       (Buffer' = Buffer /\ lastKeystroke' = lastKeystroke /\ Remaining' = Remaining)]_vars

ThmC14 ==
  /\ SessionSeconds(sessionTime) % 300 = 0
  /\ SessionSeconds(sessionTime) >= 300
  /\ SessionSeconds(sessionTime) <= 10800
  /\ timeoutSeconds \in 3..15

\* Both sliders have been moved and the dialog closed, before any session
WitC14 ==
  /\ sessionTime # DEFAULT_SESSION_TIME
  /\ timeoutSeconds # DEFAULT_TIMEOUT
  /\ ~showSettings
  /\ ~isActive
  /\ startedAt = NoTime

(* ---------------- C15 ---------------- *)
\* C15 (as claimed): in every reachable state the remaining time is between
\* 0 and the configured session length in seconds.
CexC15 == 0 <= timeRemaining /\ timeRemaining <= SessionSeconds(sessionTime)

(* ---------------- C16 ---------------- *)
\* C16 (as claimed): a deletion by the inactivity check leaves the session
\* active and the remaining time unchanged, empties the text and sets the
\* last keystroke time to the time of the check.
CexC16 ==
  [][Erases => (isActive' /\ Remaining' = Remaining /\ Buffer' = ""
                 /\ lastKeystroke' = now)]_vars

(* ---------------- C17 ---------------- *)
\* C17 (as claimed): when the countdown alone has ended the session at a
\* tick at which the inactivity timeout had also expired, the text is empty
\* by the time the timers of the session are cleared (after which no check
\* can fire), whatever order the two timers fired in.
CexC17 ==
  [][(/\ PassiveEffects
      /\ ~isActive
      /\ completed
      /\ endedCount = 1
      /\ Expired(now, lastKeystroke, timeoutSeconds)) => Buffer' = ""]_vars

(* ---------------- C18 ---------------- *)
\* C18: the session becomes active only by a start and stops being active
\* only by an end (button or countdown); a start, also after an ended
\* session, leaves the remaining time at the configured length, the text
\* empty, the last keystroke time at the time of the start and the
\* inactivity check armed on that time; hence every deletion in the new
\* session comes more than the timeout after its start.
ThmC18 ==
  /\ [][(~isActive /\ isActive') => startSession]_vars
  /\ [][(isActive /\ ~isActive') => (endedCount' > endedCount /\ ~startSession)]_vars
  /\ [][startSession =>
          /\ ~isActive /\ isActive'
          /\ timeRemaining' = timeRemaining
          /\ timeQ' = <<[op |-> "set", v |-> SessionSeconds(sessionTime)]>>
          /\ text' = ""
          /\ textQ' = <<>>
          /\ lastKeystroke' = now
          /\ interval' = SetInterval(now, now, timeoutSeconds)]_vars
  /\ []((isActive /\ erasedAt # NoTime) =>
          (erasedAt - lastKeystroke > TimeoutMs /\ lastKeystroke >= startedAt))

\* A session just started again after an ended one that left text, a
\* different last keystroke time and a partly used countdown behind
WitC18 ==
  /\ isActive
  /\ startedAt = now
  /\ now > 0
  /\ lastKeystroke = now
  /\ interval.lastKeystroke = now
  /\ timeRemaining > 0
  /\ timeRemaining < SessionSeconds(sessionTime)
  /\ text = ""

(* ---------------- C20 ---------------- *)
\* C20 (as claimed): while the session is active, the first deletion after
\* a keystroke comes between the timeout and the timeout plus one second
\* after it, and once the timeout plus one second has passed since the last
\* keystroke and the check of that instant has run, the text is empty.
CexC20 ==
  /\ (isActive /\ edited /\ erasedAt # NoTime /\ erasedPrev = NoTime) =>
        (erasedAt - lastKeystroke) \in TimeoutMs..(TimeoutMs + INTERVAL_MS)
  /\ (isActive /\ Quiescent /\ now - lastKeystroke >= TimeoutMs + INTERVAL_MS) =>
        text = ""

(* ---------------- C19 ---------------- *)
\* C19: with time passing and due callbacks delivered, every active session
\* eventually stops being active; a keystroke or an inactivity check leaves
\* the remaining time and the countdown's interval as they are.
ThmC19 ==
  /\ isActive ~> ~isActive
  /\ [][((handleTextChange \/ checkTimeout) /\ isActive') =>
          (Remaining' = Remaining /\ sessionTimerRef' = sessionTimerRef)]_vars

\* A session that the countdown ended although the user typed, and lost
\* text, during it
WitC19 ==
  /\ ~isActive
  /\ completed
  /\ endedCount = 1
  /\ edited
  /\ erasedAt # NoTime
  /\ timeRemaining = 0
  /\ now - startedAt = SessionSeconds(sessionTime) * MS_PER_SECOND

====
